---- MODULE Spec2Model ----
(***************************************************************************)
(* Hostel management backend: the room/student occupancy handlers of       *)
(* server/routes/rooms.js and server/routes/users.js and the attendance    *)
(* handlers of server/routes/announcements.js, modelled over the tables    *)
(* users, rooms and attendance.  Every `await db.promise().execute(...)`   *)
(* is one atomic SQL statement; a handler is the sequence of its           *)
(* statements, and statements of different requests interleave freely      *)
(* (the handlers open no transaction and take no lock).                    *)
(***************************************************************************)
EXTENDS Integers, FiniteSets, Sequences, Bags, TLC

\* ---------------------------------------------------------------- bounds
NRooms == 2         \* rooms present in the initial database
NStudents == 2      \* student rows present in the initial database
NCreated == 1       \* user rows that POST /users can add
MaxCap == 2         \* capacities used (the validator allows 1..10)
MaxDrift == 0       \* how far outside 0..capacity a counter may be when a request starts
MaxDay == 1         \* calendar days the clock runs through (0..MaxDay)
NFees == 1          \* fee rows present when a further POST /fees may start
MaxCount == 10       \* attendance rows of one status that the statistics are taken over
NComplaints == 1    \* complaint rows that POST /complaints can add
MaxRows == 1        \* attendance rows and other requests in flight when a marking request may start

Procs == {1, 2}     \* requests that can be in flight at the same time

\* ---------------------------------------------------------------- values
NULL == 0           \* SQL NULL / a falsy room_no
undefined == -1     \* a field missing from req.body

RoomIds == 1..NRooms
UserIds == 1..(NStudents + NCreated)
Students0 == 1..NStudents

\* rooms.room_no of the room created with id i (unique column)
RoomNoOf(i) == 100 + i
RoomNos == {RoomNoOf(i) : i \in RoomIds}

\* JavaScript truthiness of a room_no value: `if (student.room_no)`
Truthy(x) == x # NULL /\ x # undefined

Max(a, b) == IF a > b THEN a ELSE b

\* ----------------------------------------------------------------- clock
\* An instant is a number of seconds since midnight UTC of day 0.
SecondsPerDay == 86400
\* '08:00:00', the time of day after which a marking is late
LateCutoff == 28800
\* the server's local time zone, seconds east of UTC (+05:30, or UTC itself)
TzOffsets == {0, 19800}
\* the times of day (UTC) at which the clock is read
TimesOfDay == {LateCutoff - 1, LateCutoff, LateCutoff + 1, SecondsPerDay - 1}
Instants == {d * SecondsPerDay + s : d \in 0..MaxDay, s \in TimesOfDay}
Dates == 0..MaxDay
\* a DATE column holding SQL NULL (fees.paid_date of an unpaid fee)
NullDate == -2
\* CURDATE(): the calendar date in the time zone of the database session,
\* taken to be the server's
CurDate(t, offset) == (t + offset) \div SecondsPerDay

\* new Date().toISOString().split('T')[0]: the calendar date in UTC
ISODate(t) == t \div SecondsPerDay
\* new Date().toTimeString().split(' ')[0]: the local time of day, 'HH:MM:SS'
\* (zero padded, so the string order is the order of the seconds)
TimeString(t, offset) == (t + offset) % SecondsPerDay

VARIABLES
  users,      \* table users:  id -> [exists, role, is_active, room_no]
  rooms,      \* table rooms:  id -> [exists, room_no, capacity, occupied, is_active]
  pc,         \* per request slot: the statement the handler executes next
  req,        \* per request slot: req.params / req.body / req.user
  loc,        \* per request slot: the handler's local constants
  res,        \* per request slot: the response sent
  wrote,      \* per request slot: has this request executed a write statement
  nextUserId, \* AUTO_INCREMENT of users.id (result.insertId of the next INSERT)
  users0,     \* the users table the run started from (never changes)
  rooms0,     \* the rooms table the run started from (never changes)
  attendance, \* table attendance: a bag of rows [user_id, date, status, check_in_time, check_out_time]
  now,        \* the instant new Date() returns
  tz,         \* the time zone offset of the server process
  fees,       \* table fees: id -> [exists, user_id, status, due_date, paid_date, receipt_no, amount]
  nextFeeId,  \* AUTO_INCREMENT of fees.id
  decimalNumbers, \* the driver option of that name: DECIMAL columns arrive as numbers, not strings
  complaints  \* table complaints: id -> [exists, user_id]

db == <<users, rooms, nextUserId>>
\* what no handler of rooms, users, attendance or fees writes
history == <<users0, rooms0, decimalNumbers, complaints>>
clock == <<now, tz>>
feedb == <<fees, nextFeeId>>
elsewhere == <<history, attendance, clock, feedb>>
vars == <<users, rooms, pc, req, loc, res, wrote, nextUserId, elsewhere>>

\* ------------------------------------------------------------- responses
\* HTTP status and message -> the error kind of the response
OK == "ok"                  \* res.json({success: true})
NotFound == "NotFound"      \* 404
Conflict == "Conflict"      \* 400 with a business-rule message
Forbidden == "Forbidden"    \* 403
InvalidInput == "InvalidInput" \* 400 validation / no fields to update
InvalidToken == "InvalidToken" \* 400 'Invalid QR code data' / 'Invalid QR code format'
Failure == "Failure"        \* 500 from the catch block of a handler
NoRes == "none"

\* req.params.roomId / req.params.id, req.body.studentId, and the body fields
\* room_no, capacity, is_active, role; userRole / userId are req.user
NoReq == [op |-> "none", roomId |-> 0, studentId |-> 0, id |-> 0,
          room_no |-> undefined, capacity |-> undefined, is_active |-> "undefined",
          role |-> "none", userRole |-> "admin", userId |-> 0,
          qrUserId |-> 0, bodyUserId |-> 0, date |-> 0, status |-> "none",
          checkInTime |-> NULL, checkOutTime |-> NULL,
          dueDate |-> 0, paidDate |-> undefined, receiptNo |-> NULL,
          startDate |-> undefined, endDate |-> undefined, amount |-> 0]
\* stats[0] of GET /fees/stats/overview before the query has run
NoOverview == [total_fees |-> 0, paid_fees |-> 0, pending_fees |-> 0,
               overdue_fees |-> 0, total_collected |-> 0, total_due |-> 0]
\* owner is the user_id of the row a lookup by id has read, NULL without a row
NoLoc == [room_no |-> NULL, today |-> 0, currentTime |-> 0, attendancePercentage |-> 0,
          overview |-> NoOverview, monthlyData |-> [count |-> 0, total |-> 0],
          owner |-> NULL, overdueFees |-> {}]

NoUser == [exists |-> FALSE, role |-> "student", is_active |-> FALSE, room_no |-> NULL]
FeeIds == 1..(NFees + 1)
NoFee == [exists |-> FALSE, user_id |-> 0, status |-> "none", due_date |-> 0,
          paid_date |-> NullDate, receipt_no |-> NULL, amount |-> 0]
ComplaintIds == 1..(NComplaints + 1)
NoComplaint == [exists |-> FALSE, user_id |-> 0]
NoRoom == [exists |-> FALSE, room_no |-> NULL, capacity |-> 0, occupied |-> 0, is_active |-> FALSE]

\* ------------------------------------------------------------------ Init
\* A seeded database: the rooms of `present` exist, active, empty and of
\* capacity 1, and NStudents active students have no room; no request is in
\* flight.
NoRequests ==
  /\ pc = [p \in Procs |-> "idle"]
  /\ req = [p \in Procs |-> NoReq]
  /\ loc = [p \in Procs |-> NoLoc]
  /\ res = [p \in Procs |-> NoRes]
  /\ wrote = [p \in Procs |-> FALSE]

InitRoomsAndUsers(present) ==
  /\ rooms = [i \in RoomIds |->
                IF i \in present
                  THEN [exists |-> TRUE, room_no |-> RoomNoOf(i), capacity |-> 1,
                        occupied |-> 0, is_active |-> TRUE]
                  ELSE NoRoom]
  /\ users = [u \in UserIds |->
               IF u \in Students0
                 THEN [exists |-> TRUE, role |-> "student", is_active |-> TRUE,
                       room_no |-> NULL]
                 ELSE NoUser]
  /\ nextUserId = NStudents + 1
  /\ users0 = users
  /\ rooms0 = rooms
  /\ complaints = [c \in ComplaintIds |-> NoComplaint]

\* ... and no fee has been created
InitTables(present) ==
  /\ InitRoomsAndUsers(present)
  /\ fees = [f \in FeeIds |-> NoFee]
  /\ nextFeeId = 1

\* The driver runs with its defaults (decimalNumbers off) unless stated.
InitDB(present, offsets) ==
  /\ InitTables(present)
  /\ attendance = EmptyBag
  /\ decimalNumbers = FALSE
  /\ now = LateCutoff - 1
  /\ tz \in offsets
  /\ NoRequests

\* One room in the database; requests may still name the other room ids.
Init == InitDB({1}, {0})

\* ------------------------------------------------------- request plumbing
\* No counter has drifted more than MaxDrift outside 0..capacity (this bounds
\* the reachable states: no request starts once a counter is further off).
WithinDrift ==
  \A i \in RoomIds :
    /\ rooms[i].occupied >= -MaxDrift
    /\ rooms[i].occupied <= rooms[i].capacity + MaxDrift

\* A request arrives and is dispatched to its handler.
Begin(p, r, first) ==
  /\ pc[p] = "idle"
  /\ WithinDrift
  /\ pc' = [pc EXCEPT ![p] = first]
  /\ req' = [req EXCEPT ![p] = r]
  /\ loc' = [loc EXCEPT ![p] = NoLoc]
  /\ res' = [res EXCEPT ![p] = NoRes]
  /\ wrote' = [wrote EXCEPT ![p] = FALSE]
  /\ UNCHANGED <<db, elsewhere>>

\* The handler sends its response (return res.status(..).json / res.json).
Respond(p, kind) ==
  /\ pc' = [pc EXCEPT ![p] = "done"]
  /\ res' = [res EXCEPT ![p] = kind]

\* The handler goes on to its next statement.
Goto(p, next) ==
  /\ pc' = [pc EXCEPT ![p] = next]
  /\ UNCHANGED res

\* The connection of a finished request is released.
Finish(p) ==
  /\ pc[p] = "done"
  /\ pc' = [pc EXCEPT ![p] = "idle"]
  /\ req' = [req EXCEPT ![p] = NoReq]
  /\ loc' = [loc EXCEPT ![p] = NoLoc]
  /\ res' = [res EXCEPT ![p] = NoRes]
  /\ wrote' = [wrote EXCEPT ![p] = FALSE]
  /\ UNCHANGED <<db, elsewhere>>

\* --------------------------------------------------- POST /:roomId/assign
AssignStart(p) ==
  \E roomId \in RoomIds, studentId \in UserIds :
    Begin(p, [NoReq EXCEPT !.op = "assign", !.roomId = roomId, !.studentId = studentId],
          "assign_selectRoom")

\* AssignSelectRoom with the capacity check written `occupied > capacity`
AssignSelectRoom_Mut(p) ==
  /\ pc[p] = "assign_selectRoom"
  /\ LET room == rooms[req[p].roomId] IN
       IF ~(room.exists /\ room.is_active)
         THEN Respond(p, NotFound) /\ UNCHANGED loc
       ELSE IF room.occupied > room.capacity
         THEN Respond(p, Conflict) /\ UNCHANGED loc
       ELSE /\ Goto(p, "assign_selectStudent")
            /\ loc' = [loc EXCEPT ![p].room_no = room.room_no]
  /\ UNCHANGED <<users, rooms, req, wrote, nextUserId, elsewhere>>

\* SELECT room_no, capacity, occupied FROM rooms WHERE id = ? AND is_active
AssignSelectRoom(p) ==
  /\ pc[p] = "assign_selectRoom"
  /\ LET room == rooms[req[p].roomId] IN
       IF ~(room.exists /\ room.is_active)
         THEN Respond(p, NotFound) /\ UNCHANGED loc
       ELSE IF room.occupied >= room.capacity
         THEN Respond(p, Conflict) /\ UNCHANGED loc
       ELSE /\ Goto(p, "assign_selectStudent")
            /\ loc' = [loc EXCEPT ![p].room_no = room.room_no]
  /\ UNCHANGED <<users, rooms, req, wrote, nextUserId, elsewhere>>

\* SELECT id, room_no FROM users WHERE id = ? AND role = "student" AND is_active
AssignSelectStudent(p) ==
  /\ pc[p] = "assign_selectStudent"
  /\ LET student == users[req[p].studentId] IN
       IF ~(student.exists /\ student.role = "student" /\ student.is_active)
         THEN Respond(p, NotFound)
       ELSE IF Truthy(student.room_no)
         THEN Respond(p, Conflict)
       ELSE Goto(p, "assign_updateUser")
  /\ UNCHANGED <<users, rooms, req, loc, wrote, nextUserId, elsewhere>>

\* UPDATE users SET room_no = ? WHERE id = ?
AssignUpdateUser(p) ==
  /\ pc[p] = "assign_updateUser"
  /\ users' = [users EXCEPT ![req[p].studentId].room_no =
                 IF users[req[p].studentId].exists THEN loc[p].room_no ELSE @]
  /\ wrote' = [wrote EXCEPT ![p] = TRUE]
  /\ Goto(p, "assign_updateRoom")
  /\ UNCHANGED <<rooms, req, loc, nextUserId, elsewhere>>

\* UPDATE rooms SET occupied = occupied + 1 WHERE id = ?
AssignUpdateRoom(p) ==
  /\ pc[p] = "assign_updateRoom"
  /\ rooms' = [rooms EXCEPT ![req[p].roomId].occupied =
                 IF rooms[req[p].roomId].exists THEN @ + 1 ELSE @]
  /\ Respond(p, OK)
  /\ UNCHANGED <<users, req, loc, wrote, nextUserId, elsewhere>>

\* ------------------------------------------------- POST /:roomId/unassign
UnassignStart(p) ==
  \E roomId \in RoomIds, studentId \in UserIds :
    Begin(p, [NoReq EXCEPT !.op = "unassign", !.roomId = roomId, !.studentId = studentId],
          "unassign_selectRoom")

\* SELECT room_no FROM rooms WHERE id = ?
UnassignSelectRoom(p) ==
  /\ pc[p] = "unassign_selectRoom"
  /\ LET room == rooms[req[p].roomId] IN
       IF ~room.exists
         THEN Respond(p, NotFound) /\ UNCHANGED loc
         ELSE /\ Goto(p, "unassign_selectStudent")
              /\ loc' = [loc EXCEPT ![p].room_no = room.room_no]
  /\ UNCHANGED <<users, rooms, req, wrote, nextUserId, elsewhere>>

\* SELECT id FROM users WHERE id = ? AND room_no = ?
UnassignSelectStudent(p) ==
  /\ pc[p] = "unassign_selectStudent"
  /\ LET student == users[req[p].studentId] IN
       IF ~(student.exists /\ student.room_no = loc[p].room_no)
         THEN Respond(p, Conflict)
         ELSE Goto(p, "unassign_updateUser")
  /\ UNCHANGED <<users, rooms, req, loc, wrote, nextUserId, elsewhere>>

\* UPDATE users SET room_no = NULL WHERE id = ?
UnassignUpdateUser(p) ==
  /\ pc[p] = "unassign_updateUser"
  /\ users' = [users EXCEPT ![req[p].studentId].room_no =
                 IF users[req[p].studentId].exists THEN NULL ELSE @]
  /\ wrote' = [wrote EXCEPT ![p] = TRUE]
  /\ Goto(p, "unassign_updateRoom")
  /\ UNCHANGED <<rooms, req, loc, nextUserId, elsewhere>>

\* UPDATE rooms SET occupied = occupied - 1 WHERE id = ?
UnassignUpdateRoom(p) ==
  /\ pc[p] = "unassign_updateRoom"
  /\ rooms' = [rooms EXCEPT ![req[p].roomId].occupied =
                 IF rooms[req[p].roomId].exists THEN @ - 1 ELSE @]
  /\ Respond(p, OK)
  /\ UNCHANGED <<users, req, loc, wrote, nextUserId, elsewhere>>

\* ------------------------------------------------ DELETE /:id (rooms.js)
DeleteRoomStart(p) ==
  \E id \in RoomIds :
    Begin(p, [NoReq EXCEPT !.op = "deleteRoom", !.id = id], "deleteRoom_select")

\* SELECT room_no, occupied FROM rooms WHERE id = ?
DeleteRoomSelect(p) ==
  /\ pc[p] = "deleteRoom_select"
  /\ LET room == rooms[req[p].id] IN
       IF ~room.exists THEN Respond(p, NotFound)
       ELSE IF room.occupied > 0 THEN Respond(p, Conflict)
       ELSE Goto(p, "deleteRoom_delete")
  /\ UNCHANGED <<users, rooms, req, loc, wrote, nextUserId, elsewhere>>

\* DELETE FROM rooms WHERE id = ?
DeleteRoomDelete(p) ==
  /\ pc[p] = "deleteRoom_delete"
  /\ rooms' = [rooms EXCEPT ![req[p].id] = NoRoom]
  /\ wrote' = [wrote EXCEPT ![p] = TRUE]
  /\ Respond(p, OK)
  /\ UNCHANGED <<users, req, loc, nextUserId, elsewhere>>

\* --------------------------------------------------- PUT /:id (rooms.js)
\* type and floor are left out of the body: they touch no modelled column.
UpdateRoomStart(p) ==
  \E id \in RoomIds, capacity \in {undefined} \cup (1..MaxCap),
     is_active \in {"undefined", "true", "false"} :
    Begin(p, [NoReq EXCEPT !.op = "updateRoom", !.id = id, !.capacity = capacity,
                           !.is_active = is_active], "updateRoom_select")

\* SELECT * FROM rooms WHERE id = ?
UpdateRoomSelect(p) ==
  /\ pc[p] = "updateRoom_select"
  /\ LET currentRoom == rooms[req[p].id] IN
       IF ~currentRoom.exists THEN Respond(p, NotFound)
       ELSE IF req[p].capacity # undefined /\ req[p].capacity < currentRoom.occupied
         THEN Respond(p, Conflict)
       ELSE IF req[p].capacity = undefined /\ req[p].is_active = "undefined"
         THEN Respond(p, InvalidInput)
       ELSE Goto(p, "updateRoom_update")
  /\ UNCHANGED <<users, rooms, req, loc, wrote, nextUserId, elsewhere>>

\* UPDATE rooms SET capacity = ?, is_active = ? WHERE id = ?
UpdateRoomUpdate(p) ==
  /\ pc[p] = "updateRoom_update"
  /\ LET room == rooms[req[p].id]
         r1 == IF req[p].capacity # undefined
                 THEN [room EXCEPT !.capacity = req[p].capacity] ELSE room
         r2 == IF req[p].is_active # "undefined"
                 THEN [r1 EXCEPT !.is_active = (req[p].is_active = "true")] ELSE r1
     IN rooms' = [rooms EXCEPT ![req[p].id] = IF room.exists THEN r2 ELSE room]
  /\ wrote' = [wrote EXCEPT ![p] = TRUE]
  /\ Respond(p, OK)
  /\ UNCHANGED <<users, req, loc, nextUserId, elsewhere>>

\* ------------------------------------------------ DELETE /:id (users.js)
DeleteUserStart(p) ==
  \E id \in UserIds :
    Begin(p, [NoReq EXCEPT !.op = "deleteUser", !.id = id], "deleteUser_select")

\* SELECT room_no FROM users WHERE id = ?
DeleteUserSelect(p) ==
  /\ pc[p] = "deleteUser_select"
  /\ LET user == users[req[p].id] IN
       IF ~user.exists
         THEN Respond(p, NotFound) /\ UNCHANGED loc
         ELSE /\ Goto(p, "deleteUser_delete")
              /\ loc' = [loc EXCEPT ![p].room_no = user.room_no]
  /\ UNCHANGED <<users, rooms, req, wrote, nextUserId, elsewhere>>

\* DELETE FROM users WHERE id = ?
DeleteUserDelete(p) ==
  /\ pc[p] = "deleteUser_delete"
  /\ users' = [users EXCEPT ![req[p].id] = NoUser]
  /\ wrote' = [wrote EXCEPT ![p] = TRUE]
  /\ IF Truthy(loc[p].room_no)
       THEN Goto(p, "deleteUser_updateRoom")
       ELSE Respond(p, OK)
  /\ UNCHANGED <<rooms, req, loc, nextUserId, elsewhere>>

\* UPDATE rooms SET occupied = occupied - 1 WHERE room_no = ?
DeleteUserUpdateRoom(p) ==
  /\ pc[p] = "deleteUser_updateRoom"
  /\ rooms' = [i \in RoomIds |->
                 IF rooms[i].exists /\ rooms[i].room_no = loc[p].room_no
                   THEN [rooms[i] EXCEPT !.occupied = @ - 1] ELSE rooms[i]]
  /\ Respond(p, OK)
  /\ UNCHANGED <<users, req, loc, wrote, nextUserId, elsewhere>>

\* -------------------------------------------------- POST / (users.js)
\* requireAdmin; the body passes the validators and the email is not taken.
CreateUserStart(p) ==
  \E role \in {"admin", "student"}, room_no \in {NULL} \cup RoomNos :
    /\ nextUserId \in UserIds
    /\ Begin(p, [NoReq EXCEPT !.op = "createUser", !.role = role, !.room_no = room_no],
             "createUser_insert")

\* INSERT INTO users (name, email, password, role, room_no, batch, phone)
CreateUserInsert(p) ==
  /\ pc[p] = "createUser_insert"
  /\ nextUserId \in UserIds
  /\ users' = [users EXCEPT ![nextUserId] =
                 [exists |-> TRUE, role |-> req[p].role, is_active |-> TRUE,
                  room_no |-> req[p].room_no]]
  /\ nextUserId' = nextUserId + 1
  /\ wrote' = [wrote EXCEPT ![p] = TRUE]
  /\ IF Truthy(req[p].room_no)
       THEN Goto(p, "createUser_updateRoom")
       ELSE Respond(p, OK)
  /\ UNCHANGED <<rooms, req, loc, elsewhere>>

\* UPDATE rooms SET occupied = occupied + 1 WHERE room_no = ?
CreateUserUpdateRoom(p) ==
  /\ pc[p] = "createUser_updateRoom"
  /\ rooms' = [i \in RoomIds |->
                 IF rooms[i].exists /\ rooms[i].room_no = req[p].room_no
                   THEN [rooms[i] EXCEPT !.occupied = @ + 1] ELSE rooms[i]]
  /\ Respond(p, OK)
  /\ UNCHANGED <<users, req, loc, wrote, nextUserId, elsewhere>>

\* ------------------------------------------------- PUT /:id (users.js)
\* name, email, batch, phone and photo are left out of the body.
UpdateUserStartAs(p, roles) ==
  \E userRole \in roles, userId \in {0} \cup UserIds, id \in UserIds,
     room_no \in {undefined, NULL} \cup RoomNos,
     is_active \in {"undefined", "true", "false"} :
    /\ userRole = "admin" <=> userId = 0    \* only a student's id is ever compared
    /\ Begin(p, [NoReq EXCEPT !.op = "updateUser", !.userRole = userRole,
                              !.userId = userId, !.id = id, !.room_no = room_no,
                              !.is_active = is_active],
             "updateUser_select")

UpdateUserStart(p) == UpdateUserStartAs(p, {"admin", "student"})

\* the SET clause has at least one column
HasUpdateFields(r) ==
  r.room_no # undefined \/ (r.is_active # "undefined" /\ r.userRole = "admin")

\* the ownership check, then SELECT * FROM users WHERE id = ?
UpdateUserSelect(p) ==
  /\ pc[p] = "updateUser_select"
  /\ LET currentUser == users[req[p].id] IN
       IF req[p].userRole = "student" /\ req[p].id # req[p].userId
         THEN Respond(p, Forbidden) /\ UNCHANGED loc
       ELSE IF ~currentUser.exists
         THEN Respond(p, NotFound) /\ UNCHANGED loc
       ELSE IF ~HasUpdateFields(req[p])
         THEN Respond(p, InvalidInput) /\ UNCHANGED loc
       ELSE /\ Goto(p, "updateUser_update")
            /\ loc' = [loc EXCEPT ![p].room_no = currentUser.room_no]
  /\ UNCHANGED <<users, rooms, req, wrote, nextUserId, elsewhere>>

\* UPDATE users SET room_no = ?, is_active = ? WHERE id = ?
UpdateUserUpdate(p) ==
  /\ pc[p] = "updateUser_update"
  /\ LET user == users[req[p].id]
         u1 == IF req[p].room_no # undefined
                 THEN [user EXCEPT !.room_no = req[p].room_no] ELSE user
         u2 == IF req[p].is_active # "undefined" /\ req[p].userRole = "admin"
                 THEN [u1 EXCEPT !.is_active = (req[p].is_active = "true")] ELSE u1
     IN users' = [users EXCEPT ![req[p].id] = IF user.exists THEN u2 ELSE user]
  /\ wrote' = [wrote EXCEPT ![p] = TRUE]
  /\ IF req[p].userRole = "admin" /\ req[p].room_no # undefined
       THEN IF Truthy(loc[p].room_no) THEN Goto(p, "updateUser_decOld")
            ELSE IF Truthy(req[p].room_no) THEN Goto(p, "updateUser_incNew")
            ELSE Respond(p, OK)
       ELSE Respond(p, OK)
  /\ UNCHANGED <<rooms, req, loc, nextUserId, elsewhere>>

\* UPDATE rooms SET occupied = occupied - 1 WHERE room_no = ?   (oldRoom)
UpdateUserDecOld(p) ==
  /\ pc[p] = "updateUser_decOld"
  /\ rooms' = [i \in RoomIds |->
                 IF rooms[i].exists /\ rooms[i].room_no = loc[p].room_no
                   THEN [rooms[i] EXCEPT !.occupied = @ - 1] ELSE rooms[i]]
  /\ IF Truthy(req[p].room_no)
       THEN Goto(p, "updateUser_incNew")
       ELSE Respond(p, OK)
  /\ UNCHANGED <<users, req, loc, wrote, nextUserId, elsewhere>>

\* UPDATE rooms SET occupied = occupied + 1 WHERE room_no = ?   (room_no)
UpdateUserIncNew(p) ==
  /\ pc[p] = "updateUser_incNew"
  /\ rooms' = [i \in RoomIds |->
                 IF rooms[i].exists /\ rooms[i].room_no = req[p].room_no
                   THEN [rooms[i] EXCEPT !.occupied = @ + 1] ELSE rooms[i]]
  /\ Respond(p, OK)
  /\ UNCHANGED <<users, req, loc, wrote, nextUserId, elsewhere>>

\* ------------------------------------------------------------ attendance
\* the rows SELECT id FROM attendance WHERE user_id = ? AND date = ? returns
ExistingAttendance(userId, date) ==
  {r \in BagToSet(attendance) : r.user_id = userId /\ r.date = date}

\* INSERT INTO attendance (...) VALUES (...): the table has one more row
InsertAttendance(row) == attendance (+) SetToBag({row})

\* A marking request is accepted while the rows of the table and the marking
\* requests in flight on the other connections number at most MaxRows (this
\* bounds the table).
BeginMarking(p, r, first) ==
  /\ BagCardinality(attendance)
       + Cardinality({q \in Procs \ {p} : pc[q] \notin {"idle", "done"}}) <= MaxRows
  /\ Begin(p, r, first)

\* ------------------------------------------------------------- POST /mark
\* qrUserId is parsedQrData.userId; 0 stands for a qrData that JSON.parse
\* rejects or that lacks userId, name or email.
MarkStart(p) ==
  \E userRole \in {"admin", "student"}, userId \in Students0, qrUserId \in {0} \cup Students0 :
    BeginMarking(p, [NoReq EXCEPT !.op = "mark", !.userRole = userRole,
                                  !.userId = IF userRole = "student" THEN userId ELSE 0,
                                  !.qrUserId = qrUserId],
                 "mark_select")

\* MarkSelect without the check that the QR code is the student's own
MarkSelect_AnyOwner(p) ==
  /\ pc[p] = "mark_select"
  /\ LET today == ISODate(now)
         currentTime == TimeString(now, tz) IN
       IF req[p].qrUserId = 0
         THEN Respond(p, InvalidToken) /\ UNCHANGED loc
       ELSE IF ExistingAttendance(req[p].qrUserId, today) # {}
         THEN Respond(p, Conflict) /\ UNCHANGED loc
       ELSE /\ Goto(p, "mark_insert")
            /\ loc' = [loc EXCEPT ![p].today = today, ![p].currentTime = currentTime]
  /\ UNCHANGED <<db, req, wrote, elsewhere>>

\* The checks before the first await, the reading of the clock, and
\* SELECT id FROM attendance WHERE user_id = ? AND date = ?
MarkSelect(p) ==
  /\ pc[p] = "mark_select"
  /\ LET today == ISODate(now)
         currentTime == TimeString(now, tz) IN
       IF req[p].qrUserId = 0
         THEN Respond(p, InvalidToken) /\ UNCHANGED loc
       ELSE IF req[p].userRole = "student" /\ req[p].qrUserId # req[p].userId
         THEN Respond(p, Forbidden) /\ UNCHANGED loc
       ELSE IF ExistingAttendance(req[p].qrUserId, today) # {}
         THEN Respond(p, Conflict) /\ UNCHANGED loc
       ELSE /\ Goto(p, "mark_insert")
            /\ loc' = [loc EXCEPT ![p].today = today, ![p].currentTime = currentTime]
  /\ UNCHANGED <<db, req, wrote, elsewhere>>

\* MarkInsert with the cutoff written currentTime >= '08:00:00'
MarkInsert_LateAtCutoff(p) ==
  /\ pc[p] = "mark_insert"
  /\ LET isLate == loc[p].currentTime >= LateCutoff
         status == IF isLate THEN "late" ELSE "present" IN
       attendance' = InsertAttendance([user_id |-> req[p].qrUserId, date |-> loc[p].today,
                                       status |-> status,
                                       check_in_time |-> loc[p].currentTime,
                                       check_out_time |-> NULL])
  /\ wrote' = [wrote EXCEPT ![p] = TRUE]
  /\ Respond(p, OK)
  /\ UNCHANGED <<db, req, loc, history, clock, feedb>>

\* INSERT INTO attendance (user_id, date, status, check_in_time) VALUES (?, ?, ?, ?)
MarkInsert(p) ==
  /\ pc[p] = "mark_insert"
  /\ LET isLate == loc[p].currentTime > LateCutoff
         status == IF isLate THEN "late" ELSE "present" IN
       attendance' = InsertAttendance([user_id |-> req[p].qrUserId, date |-> loc[p].today,
                                       status |-> status,
                                       check_in_time |-> loc[p].currentTime,
                                       check_out_time |-> NULL])
  /\ wrote' = [wrote EXCEPT ![p] = TRUE]
  /\ Respond(p, OK)
  /\ UNCHANGED <<db, req, loc, history, clock, feedb>>

\* ----------------------------------------------------------- POST /manual
\* The handler reads the body only after the role check, so one body stands
\* for all bodies of a student's request.
ManualStart(p) ==
  \E userRole \in {"admin", "student"}, userId \in Students0, date \in Dates,
     status \in {"present", "absent", "late"} :
    /\ userRole = "student" => (userId = 1 /\ date = 0 /\ status = "present")
    /\ BeginMarking(p, [NoReq EXCEPT !.op = "manual", !.userRole = userRole,
                                     !.bodyUserId = userId, !.date = date,
                                     !.status = status],
                    "manual_select")

\* ManualSelect without the check of the rows the SELECT returns
ManualSelect_NoConflict(p) ==
  /\ pc[p] = "manual_select"
  /\ IF req[p].userRole # "admin"
       THEN Respond(p, Forbidden)
     ELSE Goto(p, "manual_insert")
  /\ UNCHANGED <<db, req, loc, wrote, elsewhere>>

\* The role check and SELECT id FROM attendance WHERE user_id = ? AND date = ?
ManualSelect(p) ==
  /\ pc[p] = "manual_select"
  /\ IF req[p].userRole # "admin"
       THEN Respond(p, Forbidden)
     ELSE IF ExistingAttendance(req[p].bodyUserId, req[p].date) # {}
       THEN Respond(p, Conflict)
     ELSE Goto(p, "manual_insert")
  /\ UNCHANGED <<db, req, loc, wrote, elsewhere>>

\* ManualInsert as REPLACE INTO: the rows with the same (user_id, date) give
\* way to the new row
ManualInsert_Replace(p) ==
  /\ pc[p] = "manual_insert"
  /\ LET row == [user_id |-> req[p].bodyUserId, date |-> req[p].date,
                 status |-> req[p].status,
                 check_in_time |-> req[p].checkInTime,
                 check_out_time |-> req[p].checkOutTime]
         kept == BagToSet(attendance) \ ExistingAttendance(row.user_id, row.date)
     IN attendance' = [r \in kept |-> attendance[r]] (+) SetToBag({row})
  /\ wrote' = [wrote EXCEPT ![p] = TRUE]
  /\ Respond(p, OK)
  /\ UNCHANGED <<db, req, loc, history, clock, feedb>>

\* INSERT INTO attendance (user_id, date, status, check_in_time, check_out_time)
ManualInsert(p) ==
  /\ pc[p] = "manual_insert"
  /\ attendance' = InsertAttendance([user_id |-> req[p].bodyUserId, date |-> req[p].date,
                                     status |-> req[p].status,
                                     check_in_time |-> req[p].checkInTime,
                                     check_out_time |-> req[p].checkOutTime])
  /\ wrote' = [wrote EXCEPT ![p] = TRUE]
  /\ Respond(p, OK)
  /\ UNCHANGED <<db, req, loc, history, clock, feedb>>

\* --------------------------------------- attendance under a unique key
\* UNIQUE (user_id, date) on table attendance: an INSERT of a second row with
\* the key is rejected with a duplicate-entry error.
DuplicateEntry(userId, date) == ExistingAttendance(userId, date) # {}

\* The INSERT of POST /mark on a table with the unique key: the rejection is
\* thrown by execute and caught by the catch block, which answers 500.
MarkInsertUnique(p) ==
  /\ pc[p] = "mark_insert"
  /\ IF DuplicateEntry(req[p].qrUserId, loc[p].today)
       THEN /\ Respond(p, Failure)
            /\ UNCHANGED <<db, req, loc, wrote, elsewhere>>
       ELSE MarkInsert(p)

\* The INSERT of POST /manual on a table with the unique key.
ManualInsertUnique(p) ==
  /\ pc[p] = "manual_insert"
  /\ IF DuplicateEntry(req[p].bodyUserId, req[p].date)
       THEN /\ Respond(p, Failure)
            /\ UNCHANGED <<db, req, loc, wrote, elsewhere>>
       ELSE ManualInsert(p)

\* ------------------------------------------------------------------ fees
\* receipt numbers an admin types in
ReceiptNos == {1, 2}
\* fees.amount of the rows the fee statistics are taken over
Amounts == {100, 250}
\* the status a fees row gets when INSERT names none (the column default)
DefaultFeeStatus == "pending"

\* --------------------------------------------------- POST / (create fee)
\* The handlers that write fees pass amount through unread, so one amount
\* stands for all.
CreateFeeStart(p) ==
  \E userId \in {1} \cup (UserIds \ Students0), dueDate \in Dates, amount \in {100} :
    /\ nextFeeId <= NFees
    /\ Begin(p, [NoReq EXCEPT !.op = "createFee", !.bodyUserId = userId,
                              !.dueDate = dueDate, !.amount = amount],
             "createFee_select")

\* SELECT id, name FROM users WHERE id = ? AND role = "student" AND is_active
CreateFeeSelect(p) ==
  /\ pc[p] = "createFee_select"
  /\ LET user == users[req[p].bodyUserId] IN
       IF ~(user.exists /\ user.role = "student" /\ user.is_active)
         THEN Respond(p, NotFound)
       ELSE Goto(p, "createFee_insert")
  /\ UNCHANGED <<db, req, loc, wrote, elsewhere>>

\* INSERT INTO fees (user_id, amount, fee_type, due_date, description)
CreateFeeInsert(p) ==
  /\ pc[p] = "createFee_insert"
  /\ fees' = [fees EXCEPT ![nextFeeId] =
                [exists |-> TRUE, user_id |-> req[p].bodyUserId,
                 status |-> DefaultFeeStatus, due_date |-> req[p].dueDate,
                 paid_date |-> NullDate, receipt_no |-> NULL,
                 amount |-> req[p].amount]]
  /\ nextFeeId' = nextFeeId + 1
  /\ wrote' = [wrote EXCEPT ![p] = TRUE]
  /\ Respond(p, OK)
  /\ UNCHANGED <<db, req, loc, history, attendance, clock>>

\* ----------------------------------------------------------- PUT /:id/pay
MarkPaidStart(p) ==
  \E id \in FeeIds, paidDate \in {undefined} \cup Dates, receiptNo \in ReceiptNos :
    Begin(p, [NoReq EXCEPT !.op = "markPaid", !.id = id, !.paidDate = paidDate,
                           !.receiptNo = receiptNo], "markPaid_select")

\* SELECT * FROM fees WHERE id = ?
MarkPaidSelect(p) ==
  /\ pc[p] = "markPaid_select"
  /\ LET fee == fees[req[p].id] IN
       IF ~fee.exists THEN Respond(p, NotFound)
       ELSE IF fee.status = "paid" THEN Respond(p, Conflict)
       ELSE Goto(p, "markPaid_update")
  /\ UNCHANGED <<db, req, loc, wrote, elsewhere>>

\* UPDATE fees SET status = "paid", paid_date = ?, receipt_no = ? WHERE id = ?
\* with paid_date = paidDate || new Date().toISOString().split('T')[0]
MarkPaidUpdate(p) ==
  /\ pc[p] = "markPaid_update"
  /\ LET paid_date == IF req[p].paidDate # undefined THEN req[p].paidDate
                      ELSE ISODate(now) IN
       fees' = [fees EXCEPT ![req[p].id] =
                  IF @.exists
                    THEN [@ EXCEPT !.status = "paid", !.paid_date = paid_date,
                                   !.receipt_no = req[p].receiptNo]
                    ELSE @]
  /\ wrote' = [wrote EXCEPT ![p] = TRUE]
  /\ Respond(p, OK)
  /\ UNCHANGED <<db, req, loc, history, attendance, clock, nextFeeId>>

\* ------------------------------------------------------ PUT /update-overdue
\* Swept without the status condition: WHERE due_date < CURDATE()
Swept_AnyStatus(fs, today) ==
  [f \in FeeIds |->
     IF fs[f].exists /\ fs[f].due_date < today
       THEN [fs[f] EXCEPT !.status = "overdue"]
       ELSE fs[f]]

\* Swept with the date condition written due_date <= CURDATE()
Swept_DueToday(fs, today) ==
  [f \in FeeIds |->
     IF fs[f].exists /\ fs[f].status = "pending" /\ fs[f].due_date <= today
       THEN [fs[f] EXCEPT !.status = "overdue"]
       ELSE fs[f]]

\* Swept as a switch: a past-due fee that is overdue goes back to pending
Swept_Switch(fs, today) ==
  [f \in FeeIds |->
     IF fs[f].exists /\ fs[f].status # "paid" /\ fs[f].due_date < today
       THEN [fs[f] EXCEPT !.status = IF @ = "pending" THEN "overdue" ELSE "pending"]
       ELSE fs[f]]

\* The fees table after
\* UPDATE fees SET status = 'overdue' WHERE status = 'pending' AND due_date < CURDATE()
Swept(fs, today) ==
  [f \in FeeIds |->
     IF fs[f].exists /\ fs[f].status = "pending" /\ fs[f].due_date < today
       THEN [fs[f] EXCEPT !.status = "overdue"]
       ELSE fs[f]]

SweepOverdueStart(p) ==
  Begin(p, [NoReq EXCEPT !.op = "sweepOverdue"], "sweepOverdue_update")

SweepOverdueUpdate(p) ==
  /\ pc[p] = "sweepOverdue_update"
  /\ fees' = Swept(fees, CurDate(now, tz))
  /\ wrote' = [wrote EXCEPT ![p] = TRUE]
  /\ Respond(p, OK)
  /\ UNCHANGED <<db, req, loc, history, attendance, clock, nextFeeId>>

\* ------------------------------------------------------ GET /stats/:userId
\* dates a statistics request names as startDate / endDate
StatDates == {1, 2}

\* A value of a result row as JavaScript sees it: COUNT(*) is a number, a
\* SUM(...) is a DECIMAL, which the driver hands over as a number with
\* decimalNumbers and as a string of decimal digits without, and is NULL
\* over no rows.
JsNumber(n) == [type |-> "number", value |-> n]
JsString(n) == [type |-> "string", value |-> n]
JsNull == [type |-> "null", value |-> 0]
SqlSum(n, rows) ==
  IF rows = 0 THEN JsNull
  ELSE IF decimalNumbers THEN JsNumber(n) ELSE JsString(n)

\* the number of decimal digits of n, and 10^k
Digits(n) == IF n < 10 THEN 1 ELSE IF n < 100 THEN 2 ELSE 3
Pow10(k) == IF k = 1 THEN 10 ELSE IF k = 2 THEN 100 ELSE 1000

\* a + b in JavaScript: the sum of two numbers, the concatenation when one
\* operand is a string (a string of digits is given by the number it reads as)
JsPlus(a, b) ==
  IF a.type = "number" /\ b.type = "number"
    THEN JsNumber(a.value + b.value)
    ELSE JsString(a.value * Pow10(Digits(b.value)) + b.value)

\* parseFloat((x / totalDays * 100).toFixed(2)), in hundredths
ToFixed2(x, totalDays) == (2 * x * 10000 + totalDays) \div (2 * totalDays)

\* the rows the statistics query aggregates
StatsRows(userId, startDate, endDate) ==
  {r \in BagToSet(attendance) :
     /\ r.user_id = userId
     /\ startDate # undefined => r.date >= startDate
     /\ endDate # undefined => r.date <= endDate}

\* the number of table rows among `rows` that have one of `statuses`
CountRows(rows, statuses) ==
  BagCardinality([r \in {x \in rows : x.status \in statuses} |-> attendance[r]])

StatsStart(p) ==
  \E userRole \in {"admin", "student"}, userId \in Students0, id \in Students0,
     startDate \in {undefined} \cup StatDates, endDate \in {undefined} \cup StatDates :
    Begin(p, [NoReq EXCEPT !.op = "stats", !.userRole = userRole,
                           !.userId = IF userRole = "student" THEN userId ELSE 0,
                           !.id = id, !.startDate = startDate, !.endDate = endDate],
          "stats_select")

\* SELECT COUNT(*), SUM(CASE WHEN status = ...) FROM attendance WHERE user_id = ? ...
\* and the percentage computed from its row
StatsSelect(p) ==
  /\ pc[p] = "stats_select"
  /\ LET targetUserId == IF req[p].userRole = "admin" THEN req[p].id ELSE req[p].userId
         rows == StatsRows(targetUserId, req[p].startDate, req[p].endDate)
         totalDays == CountRows(rows, {"present", "absent", "late"})
         presentDays == SqlSum(CountRows(rows, {"present"}), totalDays)
         lateDays == SqlSum(CountRows(rows, {"late"}), totalDays)
         attendancePercentage ==
           IF totalDays > 0
             THEN ToFixed2(JsPlus(presentDays, lateDays).value, totalDays)
             ELSE 0
     IN loc' = [loc EXCEPT ![p].attendancePercentage = attendancePercentage]
  /\ Respond(p, OK)
  /\ UNCHANGED <<db, req, wrote, elsewhere>>

\* ---------------------------------------------- GET /fees/stats/overview
\* the sum of fees.amount over the fee ids of S
RECURSIVE SumAmount(_)
SumAmount(S) ==
  IF S = {} THEN 0
  ELSE LET f == CHOOSE x \in S : TRUE IN fees[f].amount + SumAmount(S \ {f})

\* the rows of FROM fees f JOIN users u ON f.user_id = u.id WHERE u.role =
\* 'student' AND u.is_active = TRUE [AND f.due_date >= ?] [AND f.due_date <= ?]
OverviewRows(startDate, endDate) ==
  {f \in FeeIds :
     /\ fees[f].exists
     /\ fees[f].user_id \in UserIds
     /\ users[fees[f].user_id].exists
     /\ users[fees[f].user_id].role = "student"
     /\ users[fees[f].user_id].is_active
     /\ startDate # undefined => fees[f].due_date >= startDate
     /\ endDate # undefined => fees[f].due_date <= endDate}

\* the rows of FROM fees WHERE status = 'paid' AND paid_date IS NOT NULL
\* [AND paid_date >= ?] [AND paid_date <= ?]
MonthlyRows(startDate, endDate) ==
  {f \in FeeIds :
     /\ fees[f].exists /\ fees[f].status = "paid" /\ fees[f].paid_date # NullDate
     /\ startDate # undefined => fees[f].paid_date >= startDate
     /\ endDate # undefined => fees[f].paid_date <= endDate}

FeeStatsStart(p) ==
  \E startDate \in {undefined} \cup Dates, endDate \in {undefined} \cup Dates :
    Begin(p, [NoReq EXCEPT !.op = "feeStats", !.startDate = startDate,
                           !.endDate = endDate], "feeStats_overview")

\* SELECT COUNT(*), SUM(CASE WHEN status = ...), SUM(amount) FROM fees f JOIN users u ...
FeeStatsOverview(p) ==
  /\ pc[p] = "feeStats_overview"
  /\ LET rows == OverviewRows(req[p].startDate, req[p].endDate)
         n == Cardinality(rows)
         having(status) == {f \in rows : fees[f].status = status} IN
       loc' = [loc EXCEPT ![p].overview =
                 [total_fees |-> JsNumber(n),
                  paid_fees |-> SqlSum(Cardinality(having("paid")), n),
                  pending_fees |-> SqlSum(Cardinality(having("pending")), n),
                  overdue_fees |-> SqlSum(Cardinality(having("overdue")), n),
                  total_collected |-> SqlSum(SumAmount(having("paid")), n),
                  total_due |-> SqlSum(SumAmount(rows), n)]]
  /\ Goto(p, "feeStats_monthly")
  /\ UNCHANGED <<db, req, wrote, elsewhere>>

\* SELECT DATE_FORMAT(paid_date, '%Y-%m'), COUNT(*), SUM(amount) FROM fees ...
\* The statement has one placeholder for each of startDate and endDate that
\* is given, and is executed with [startDate, endDate] when both are given
\* and with [] otherwise: with exactly one of them the execution is rejected
\* and the catch block answers 500.  The dates of the model lie in one month.
FeeStatsMonthly(p) ==
  /\ pc[p] = "feeStats_monthly"
  /\ LET placeholders == (IF req[p].startDate # undefined THEN 1 ELSE 0)
                           + (IF req[p].endDate # undefined THEN 1 ELSE 0)
         params == IF req[p].startDate # undefined /\ req[p].endDate # undefined
                     THEN 2 ELSE 0
         rows == MonthlyRows(req[p].startDate, req[p].endDate) IN
       IF placeholders # params
         THEN Respond(p, Failure) /\ UNCHANGED loc
       ELSE /\ loc' = [loc EXCEPT ![p].monthlyData =
                         [count |-> Cardinality(rows), total |-> SumAmount(rows)]]
            /\ Respond(p, OK)
  /\ UNCHANGED <<db, req, wrote, elsewhere>>

\* ------------------------------------------------------ GET /fees/:id/receipt
ReceiptStart(p) ==
  \E userRole \in {"admin", "student"}, userId \in Students0, id \in FeeIds :
    Begin(p, [NoReq EXCEPT !.op = "receipt", !.userRole = userRole,
                           !.userId = IF userRole = "student" THEN userId ELSE 0,
                           !.id = id], "receipt_select")

\* SELECT f.*, u.name, ... FROM fees f JOIN users u ON f.user_id = u.id
\* WHERE f.id = ?, and the checks on its row
ReceiptSelect(p) ==
  /\ pc[p] = "receipt_select"
  /\ LET fee == fees[req[p].id]
         found == fee.exists /\ fee.user_id \in UserIds /\ users[fee.user_id].exists IN
       /\ loc' = [loc EXCEPT ![p].owner = IF found THEN fee.user_id ELSE NULL]
       /\ IF ~found THEN Respond(p, NotFound)
          ELSE IF req[p].userRole = "student" /\ fee.user_id # req[p].userId
            THEN Respond(p, Forbidden)
          ELSE IF fee.status # "paid" THEN Respond(p, Conflict)
          ELSE Respond(p, OK)
  /\ UNCHANGED <<db, req, wrote, elsewhere>>

\* ------------------------------------------------------------- complaints
\* POST /complaints by a student; result.insertId is the first unused id.
CreateComplaintStart(p) ==
  \E userId \in Students0 :
    /\ \E c \in 1..NComplaints : ~complaints[c].exists
    /\ Begin(p, [NoReq EXCEPT !.op = "createComplaint", !.userRole = "student",
                              !.userId = userId], "createComplaint_insert")

\* INSERT INTO complaints (user_id, category, title, description, priority)
CreateComplaintInsert(p) ==
  /\ pc[p] = "createComplaint_insert"
  /\ LET unused == {c \in ComplaintIds : ~complaints[c].exists}
         insertId == CHOOSE c \in unused : \A d \in unused : c <= d IN
       complaints' = [complaints EXCEPT ![insertId] =
                        [exists |-> TRUE, user_id |-> req[p].userId]]
  /\ wrote' = [wrote EXCEPT ![p] = TRUE]
  /\ Respond(p, OK)
  /\ UNCHANGED <<db, req, loc, users0, rooms0, decimalNumbers, attendance, clock, feedb>>

\* GET /complaints/:id
ComplaintStart(p) ==
  \E userRole \in {"admin", "student"}, userId \in Students0, id \in ComplaintIds :
    Begin(p, [NoReq EXCEPT !.op = "complaint", !.userRole = userRole,
                           !.userId = IF userRole = "student" THEN userId ELSE 0,
                           !.id = id], "complaint_select")

\* SELECT c.*, u.name, ... FROM complaints c JOIN users u ON c.user_id = u.id
\* WHERE c.id = ?, and the checks on its row
ComplaintSelect(p) ==
  /\ pc[p] = "complaint_select"
  /\ LET complaint == complaints[req[p].id]
         found == complaint.exists /\ users[complaint.user_id].exists IN
       /\ loc' = [loc EXCEPT ![p].owner = IF found THEN complaint.user_id ELSE NULL]
       /\ IF ~found THEN Respond(p, NotFound)
          ELSE IF req[p].userRole = "student" /\ complaint.user_id # req[p].userId
            THEN Respond(p, Forbidden)
          ELSE Respond(p, OK)
  /\ UNCHANGED <<db, req, wrote, elsewhere>>

\* ------------------------------------------------------ GET /fees/overdue
\* page and limit are left at their defaults, which take in every row.
OverdueStart(p) ==
  Begin(p, [NoReq EXCEPT !.op = "overdue"], "overdue_select")

\* SELECT f.*, ... FROM fees f JOIN users u ON f.user_id = u.id
\* WHERE f.status = 'pending' AND f.due_date < CURDATE()
\*   AND u.role = 'student' AND u.is_active = TRUE
OverdueSelect(p) ==
  /\ pc[p] = "overdue_select"
  /\ loc' = [loc EXCEPT ![p].overdueFees =
               {f \in FeeIds :
                  /\ fees[f].exists
                  /\ fees[f].status = "pending"
                  /\ fees[f].due_date < CurDate(now, tz)
                  /\ fees[f].user_id \in UserIds
                  /\ users[fees[f].user_id].exists
                  /\ users[fees[f].user_id].role = "student"
                  /\ users[fees[f].user_id].is_active}]
  /\ Goto(p, "overdue_count")
  /\ UNCHANGED <<db, req, wrote, elsewhere>>

\* SELECT COUNT(*) as total FROM fees f JOIN users u ... (same conditions)
\* and the response
OverdueCount(p) ==
  /\ pc[p] = "overdue_count"
  /\ Respond(p, OK)
  /\ UNCHANGED <<db, req, loc, wrote, elsewhere>>

\* ------------------------------------------------------ statement failure
\* The statement a handler awaits is rejected (the connection is lost, the
\* statement is chosen as deadlock victim, a lock wait times out): nothing is
\* written by it, control passes to the catch block of the handler, which
\* answers 500.  What earlier statements of the request wrote stays: the
\* handlers run their statements on the pool without a transaction.
StatementFails(p) ==
  /\ pc[p] \notin {"idle", "done"}
  /\ Respond(p, Failure)
  /\ UNCHANGED <<db, req, loc, wrote, elsewhere>>

\* A day passes between two statements.
NextDay ==
  /\ ISODate(now) < MaxDay
  /\ now' = now + SecondsPerDay
  /\ UNCHANGED <<db, pc, req, loc, res, wrote, history, attendance, tz, feedb>>

\* Time passes between two statements.
Tick ==
  /\ \E t \in Instants : t > now /\ now' = t
  /\ UNCHANGED <<db, pc, req, loc, res, wrote, history, attendance, tz, feedb>>

\* ---------------------------------------------------------- specification
\* Requests to the room handlers and user deletion, any two in flight.
Next ==
  \E p \in Procs :
    \/ AssignStart(p)
    \/ AssignSelectRoom(p)
    \/ AssignSelectStudent(p)
    \/ AssignUpdateUser(p)
    \/ AssignUpdateRoom(p)
    \/ UnassignStart(p)
    \/ UnassignSelectRoom(p)
    \/ UnassignSelectStudent(p)
    \/ UnassignUpdateUser(p)
    \/ UnassignUpdateRoom(p)
    \/ DeleteRoomStart(p)
    \/ DeleteRoomSelect(p)
    \/ DeleteRoomDelete(p)
    \/ UpdateRoomStart(p)
    \/ UpdateRoomSelect(p)
    \/ UpdateRoomUpdate(p)
    \/ DeleteUserStart(p)
    \/ DeleteUserSelect(p)
    \/ DeleteUserDelete(p)
    \/ DeleteUserUpdateRoom(p)
    \/ Finish(p)

Spec == Init /\ [][Next]_vars

\* The user handlers together with assign and unassign, one request at a
\* time (statement by statement), over a database with every room present.
SeqProcs == {1}

InitUsers == InitDB(RoomIds, {0})

NextUsers ==
  \E p \in SeqProcs :
    \/ CreateUserStart(p)
    \/ CreateUserInsert(p)
    \/ CreateUserUpdateRoom(p)
    \/ UpdateUserStart(p)
    \/ UpdateUserSelect(p)
    \/ UpdateUserUpdate(p)
    \/ UpdateUserDecOld(p)
    \/ UpdateUserIncNew(p)
    \/ DeleteUserStart(p)
    \/ DeleteUserSelect(p)
    \/ DeleteUserDelete(p)
    \/ DeleteUserUpdateRoom(p)
    \/ AssignStart(p)
    \/ AssignSelectRoom(p)
    \/ AssignSelectStudent(p)
    \/ AssignUpdateUser(p)
    \/ AssignUpdateRoom(p)
    \/ UnassignStart(p)
    \/ UnassignSelectRoom(p)
    \/ UnassignSelectStudent(p)
    \/ UnassignUpdateUser(p)
    \/ UnassignUpdateRoom(p)
    \/ Finish(p)

SpecUsers == InitUsers /\ [][NextUsers]_vars

\* Two requests race: each slot serves one request, from a database in which
\* student 1 is either without a room or already assigned to room 1, and
\* room 1 has one place or, when student 1 lives in it, possibly two.
InitRace ==
  /\ \E seeded \in BOOLEAN, capacity \in {1, 2} :
       /\ capacity = 2 => seeded
       /\ rooms = [i \in RoomIds |->
                     IF i = 1
                       THEN [exists |-> TRUE, room_no |-> RoomNoOf(i), capacity |-> capacity,
                             occupied |-> IF seeded THEN 1 ELSE 0, is_active |-> TRUE]
                       ELSE NoRoom]
       /\ users = [u \in UserIds |->
                     IF u \in Students0
                       THEN [exists |-> TRUE, role |-> "student", is_active |-> TRUE,
                             room_no |-> IF seeded /\ u = 1 THEN RoomNoOf(1) ELSE NULL]
                       ELSE NoUser]
  /\ nextUserId = NStudents + 1
  /\ users0 = users
  /\ rooms0 = rooms
  /\ attendance = EmptyBag
  /\ fees = [f \in FeeIds |-> NoFee]
  /\ nextFeeId = 1
  /\ complaints = [c \in ComplaintIds |-> NoComplaint]
  /\ decimalNumbers = FALSE
  /\ now = LateCutoff - 1
  /\ tz = 0
  /\ NoRequests

NextRace ==
  \E p \in Procs :
    \/ AssignStart(p)
    \/ AssignSelectRoom(p)
    \/ AssignSelectStudent(p)
    \/ AssignUpdateUser(p)
    \/ AssignUpdateRoom(p)
    \/ UnassignStart(p)
    \/ UnassignSelectRoom(p)
    \/ UnassignSelectStudent(p)
    \/ UnassignUpdateUser(p)
    \/ UnassignUpdateRoom(p)
    \/ DeleteRoomStart(p)
    \/ DeleteRoomSelect(p)
    \/ DeleteRoomDelete(p)
    \/ UpdateRoomStart(p)
    \/ UpdateRoomSelect(p)
    \/ UpdateRoomUpdate(p)
    \/ DeleteUserStart(p)
    \/ DeleteUserSelect(p)
    \/ DeleteUserDelete(p)
    \/ DeleteUserUpdateRoom(p)
    \/ UpdateUserStartAs(p, {"admin"})
    \/ UpdateUserSelect(p)
    \/ UpdateUserUpdate(p)
    \/ UpdateUserDecOld(p)
    \/ UpdateUserIncNew(p)

SpecRace == InitRace /\ [][NextRace]_vars

\* ---------------------------------------------- attendance specification
\* Marking requests on two connections, in any time zone of TzOffsets, while
\* the clock advances.
InitAtt == InitDB({1}, TzOffsets)

NextAtt ==
  \/ \E p \in Procs :
       \/ MarkStart(p)
       \/ MarkSelect(p)
       \/ MarkInsert(p)
       \/ ManualStart(p)
       \/ ManualSelect(p)
       \/ ManualInsert(p)
       \/ Finish(p)
  \/ Tick

SpecAtt == InitAtt /\ [][NextAtt]_vars

\* ----------------------------------------------------- fee specification
\* Fee requests of the admin on two connections while the days pass.
InitFees == InitDB({1}, {0})

NextFees ==
  \/ \E p \in Procs :
       \/ CreateFeeStart(p)
       \/ CreateFeeSelect(p)
       \/ CreateFeeInsert(p)
       \/ MarkPaidStart(p)
       \/ MarkPaidSelect(p)
       \/ MarkPaidUpdate(p)
       \/ SweepOverdueStart(p)
       \/ SweepOverdueUpdate(p)
       \/ Finish(p)
  \/ NextDay

SpecFees == InitFees /\ [][NextFees]_vars

\* ----------------------------------------------- statistics specification
\* AttendanceOf(u, present, absent, late): a table with that many rows of each
\* status for user u, one row a day.
StatusOfDay(d, present, absent) ==
  IF d < present THEN "present" ELSE IF d < present + absent THEN "absent" ELSE "late"

AttendanceOf(u, present, absent, late) ==
  SetToBag({[user_id |-> u, date |-> d, status |-> StatusOfDay(d, present, absent),
             check_in_time |-> NULL, check_out_time |-> NULL] :
              d \in 0..(present + absent + late - 1)})

\* Statistics requests, one at a time, over a table with any counts up to
\* MaxCount, with the driver option on or off.
InitStats ==
  /\ InitTables({1})
  /\ \E present, absent, late \in 0..MaxCount :
       attendance = AttendanceOf(1, present, absent, late)
  /\ decimalNumbers \in BOOLEAN
  /\ now = LateCutoff - 1
  /\ tz = 0
  /\ NoRequests

NextStats ==
  \E p \in SeqProcs :
    \/ StatsStart(p)
    \/ StatsSelect(p)
    \/ Finish(p)

SpecStats == InitStats /\ [][NextStats]_vars

\* ------------------------------------------- fee statistics specification
\* the fee rows a table can hold: of any amount, pending, overdue, or paid on
\* some date
FeeRows ==
  {[exists |-> TRUE, user_id |-> u, status |-> st, due_date |-> d,
    paid_date |-> pd, receipt_no |-> IF st = "paid" THEN 1 ELSE NULL, amount |-> a] :
     u \in {1}, st \in {"pending", "overdue", "paid"}, d \in Dates,
     pd \in Dates \cup {NullDate}, a \in Amounts}

\* Fee statistics requests, one at a time, over any table of fees with past
\* due dates.
InitFeeStats ==
  /\ InitRoomsAndUsers({1})
  /\ \E k \in 0..(NFees + 1) :
       /\ nextFeeId = k + 1
       /\ \E rows \in [1..k -> {r \in FeeRows : (r.status = "paid") <=> (r.paid_date # NullDate)}] :
            fees = [f \in FeeIds |-> IF f <= k THEN rows[f] ELSE NoFee]
  /\ attendance = EmptyBag
  /\ decimalNumbers = FALSE
  /\ now = (MaxDay + 1) * SecondsPerDay + LateCutoff - 1
  /\ tz = 0
  /\ NoRequests

NextFeeStats ==
  \E p \in SeqProcs :
    \/ FeeStatsStart(p)
    \/ FeeStatsOverview(p)
    \/ FeeStatsMonthly(p)
    \/ Finish(p)

SpecFeeStats == InitFeeStats /\ [][NextFeeStats]_vars

\* -------------------------------------------- failing statements
\* One request of an occupancy, attendance or fee handler, any of whose
\* statements may be rejected, over the databases of InitRace.
NextFail ==
  \E p \in SeqProcs :
    \/ AssignStart(p)
    \/ AssignSelectRoom(p)
    \/ AssignSelectStudent(p)
    \/ AssignUpdateUser(p)
    \/ AssignUpdateRoom(p)
    \/ UnassignStart(p)
    \/ UnassignSelectRoom(p)
    \/ UnassignSelectStudent(p)
    \/ UnassignUpdateUser(p)
    \/ UnassignUpdateRoom(p)
    \/ CreateUserStart(p)
    \/ CreateUserInsert(p)
    \/ CreateUserUpdateRoom(p)
    \/ UpdateUserStart(p)
    \/ UpdateUserSelect(p)
    \/ UpdateUserUpdate(p)
    \/ UpdateUserDecOld(p)
    \/ UpdateUserIncNew(p)
    \/ DeleteUserStart(p)
    \/ DeleteUserSelect(p)
    \/ DeleteUserDelete(p)
    \/ DeleteUserUpdateRoom(p)
    \/ MarkStart(p)
    \/ MarkSelect(p)
    \/ MarkInsert(p)
    \/ ManualStart(p)
    \/ ManualSelect(p)
    \/ ManualInsert(p)
    \/ CreateFeeStart(p)
    \/ CreateFeeSelect(p)
    \/ CreateFeeInsert(p)
    \/ StatementFails(p)

SpecFail == InitRace /\ [][NextFail]_vars

\* ---------------------------------------------------- overdue listing
\* The admin creates fees, marks them paid, sweeps and lists the overdue
\* fees, one request at a time, while the days pass.
NextOverdue ==
  \/ \E p \in SeqProcs :
       \/ CreateFeeStart(p)
       \/ CreateFeeSelect(p)
       \/ CreateFeeInsert(p)
       \/ MarkPaidStart(p)
       \/ MarkPaidSelect(p)
       \/ MarkPaidUpdate(p)
       \/ SweepOverdueStart(p)
       \/ SweepOverdueUpdate(p)
       \/ OverdueStart(p)
       \/ OverdueSelect(p)
       \/ OverdueCount(p)
       \/ Finish(p)
  \/ NextDay

SpecOverdue == InitFees /\ [][NextOverdue]_vars

\* ------------------------------------------------------- lookups by id
\* Fees and complaints are created and looked up by id, by students and the
\* admin.
NextLookup ==
  \E p \in Procs :
    \/ CreateFeeStart(p)
    \/ CreateFeeSelect(p)
    \/ CreateFeeInsert(p)
    \/ ReceiptStart(p)
    \/ ReceiptSelect(p)
    \/ CreateComplaintStart(p)
    \/ CreateComplaintInsert(p)
    \/ ComplaintStart(p)
    \/ ComplaintSelect(p)
    \/ Finish(p)

SpecLookup == InitFees /\ [][NextLookup]_vars

\* ------------------------------------- attendance under a unique key
\* The marking requests of SpecAtt over a table that has the unique key, at
\* one instant.
NextUnique ==
  \E p \in Procs :
    \/ MarkStart(p)
    \/ MarkSelect(p)
    \/ MarkInsertUnique(p)
    \/ ManualStart(p)
    \/ ManualSelect(p)
    \/ ManualInsertUnique(p)
    \/ Finish(p)

SpecUnique == InitAtt /\ [][NextUnique]_vars

\* ======================================================================
\* Properties
\* ======================================================================

\* No request is between two of its statements.
Quiescent == \A p \in Procs : pc[p] \in {"idle", "done"}

\* The occupants of room i: the active students whose room_no is the room's
\* (the occupants query of GET /rooms/:id).
Occupants(i) ==
  {u \in UserIds : /\ users[u].exists
                   /\ users[u].role = "student"
                   /\ users[u].is_active
                   /\ users[u].room_no = rooms[i].room_no}

\* The ids of the rooms whose room_no is `no`.
RoomsNumbered(no) == {i \in RoomIds : rooms[i].exists /\ rooms[i].room_no = no}

\* C1: whenever no request is between two statements, every room's occupied
\* equals the number of active students whose room_no is that room.
C1_OccupiedEqualsOccupants ==
  Quiescent =>
    \A i \in RoomIds :
      rooms[i].exists => rooms[i].occupied = Cardinality(Occupants(i))

\* C2: every room satisfies 0 <= occupied <= capacity in every state.
C2_OccupiedWithinCapacity ==
  \A i \in RoomIds :
    rooms[i].exists => (0 <= rooms[i].occupied /\ rooms[i].occupied <= rooms[i].capacity)

\* Request slot p executes a statement in this step.
Steps(p) == pc'[p] # pc[p]

\* C5: assign applies its two writes as one unit: the step in which an assign
\* request sets the student's room_no also increments the room's occupied.
C5_AssignWritesAtomic ==
  [][\A p \in Procs :
       (pc[p] = "assign_updateUser" /\ Steps(p)) =>
         rooms'[req[p].roomId].occupied = rooms[req[p].roomId].occupied + 1]_vars

\* The user-update request of slot p asks to move a student who is in a room
\* to another room that is full.
ReassignToFullRoom(p) ==
  /\ req[p].op = "updateUser"
  /\ req[p].userRole = "admin"
  /\ users[req[p].id].exists
  /\ Truthy(users[req[p].id].room_no)
  /\ Truthy(req[p].room_no)
  /\ req[p].room_no # users[req[p].id].room_no
  /\ \E b \in RoomsNumbered(req[p].room_no) : rooms[b].occupied >= rooms[b].capacity

\* C6: an admin user-update that moves student S from room A to a full room B
\* writes nothing (S stays in A, both counters keep their value) and the only
\* response it gives is Conflict.
C6_ReassignToFullRoomFails ==
  [][\A p \in Procs :
       (ReassignToFullRoom(p) /\ Steps(p) /\ pc[p] # "done") =>
         /\ users' = users
         /\ rooms' = rooms
         /\ pc'[p] = "done" => res'[p] = Conflict]_vars

\* C7: assign answers NotFound when the room it reads is missing or inactive
\* or the student it reads is missing, inactive or no student, and Conflict
\* when the room it reads is full or the student it reads already has a
\* room; a failing assign has written nothing.
C7_AssignFailures ==
  [][\A p \in Procs :
       LET room == rooms[req[p].roomId]
           student == users[req[p].studentId]
           roomFound == room.exists /\ room.is_active
           studentFound == student.exists /\ student.role = "student" /\ student.is_active
       IN
       /\ (pc[p] = "assign_selectRoom" /\ Steps(p)) =>
            /\ ~roomFound => (pc'[p] = "done" /\ res'[p] = NotFound)
            /\ (roomFound /\ room.occupied >= room.capacity) =>
                 (pc'[p] = "done" /\ res'[p] = Conflict)
       /\ (pc[p] = "assign_selectStudent" /\ Steps(p)) =>
            /\ ~studentFound => (pc'[p] = "done" /\ res'[p] = NotFound)
            /\ (studentFound /\ student.room_no # NULL) =>
                 (pc'[p] = "done" /\ res'[p] = Conflict)
       /\ (req[p].op = "assign" /\ pc[p] # "done" /\ pc'[p] = "done" /\ res'[p] # OK) =>
            (~wrote[p] /\ users' = users /\ rooms' = rooms)]_vars

\* Two assign requests have failed, one with NotFound and one with Conflict
\* against a room that exists, is active and has a free place (the student
\* already had a room), and neither has written.
C7_Witness ==
  \E p, q \in Procs :
    /\ req[p].op = "assign" /\ pc[p] = "done" /\ res[p] = NotFound /\ ~wrote[p]
    /\ req[q].op = "assign" /\ pc[q] = "done" /\ res[q] = Conflict /\ ~wrote[q]
    /\ LET room == rooms[req[q].roomId] IN
         room.exists /\ room.is_active /\ room.occupied < room.capacity

\* C8: unassign answers Conflict, writing nothing, when the student's room_no
\* is not the room's; a successful unassign clears the student's room_no and
\* sets occupied to max(0, occupied - 1).
C8_Unassign ==
  [][\A p \in Procs :
       LET room == rooms[req[p].roomId]
           student == users[req[p].studentId]
       IN
       /\ (pc[p] = "unassign_selectStudent" /\ Steps(p)
             /\ ~(student.exists /\ student.room_no = room.room_no)) =>
            (pc'[p] = "done" /\ res'[p] = Conflict /\ users' = users /\ rooms' = rooms)
       /\ (pc[p] = "unassign_updateUser" /\ Steps(p) /\ student.exists) =>
            users'[req[p].studentId].room_no = NULL
       /\ (pc[p] = "unassign_updateRoom" /\ Steps(p) /\ room.exists) =>
            /\ rooms'[req[p].roomId].occupied = Max(0, room.occupied - 1)
            /\ res'[p] = OK]_vars

\* C10: deleteRoom answers NotFound when the room it reads does not exist and
\* Conflict when the room it reads has occupied > 0, in both cases leaving
\* the rooms table as it is; it goes on to its DELETE only for a room it read
\* with occupied = 0, and a room is removed only by that DELETE and only
\* while its occupied is 0.
C10_DeleteRoom ==
  [][/\ \A p \in Procs :
          LET room == rooms[req[p].id] IN
          (pc[p] = "deleteRoom_select" /\ Steps(p)) =>
            /\ ~room.exists => (pc'[p] = "done" /\ res'[p] = NotFound /\ rooms' = rooms)
            /\ (room.exists /\ room.occupied > 0) =>
                 (pc'[p] = "done" /\ res'[p] = Conflict /\ rooms' = rooms)
            /\ pc'[p] = "deleteRoom_delete" => (room.exists /\ room.occupied = 0)
     /\ \A i \in RoomIds :
          (rooms[i].exists /\ ~rooms'[i].exists) =>
            /\ \E p \in Procs : /\ pc[p] = "deleteRoom_delete" /\ req[p].id = i
                                /\ pc'[p] = "done" /\ res'[p] = OK
            /\ rooms[i].occupied = 0]_vars

\* Slots p and q serve two assign requests for the same room and two
\* different students, and the run started with that room active, of
\* capacity 1 and empty and with both students active and without a room.
AssignRace(p, q) ==
  /\ p # q
  /\ req[p].op = "assign" /\ req[q].op = "assign"
  /\ req[p].roomId = req[q].roomId
  /\ req[p].studentId # req[q].studentId
  /\ LET room0 == rooms0[req[p].roomId] IN
       room0.exists /\ room0.is_active /\ room0.capacity = 1 /\ room0.occupied = 0
  /\ \A s \in {req[p].studentId, req[q].studentId} :
       /\ users0[s].exists /\ users0[s].role = "student" /\ users0[s].is_active
       /\ users0[s].room_no = NULL

\* C3: of two concurrent assign requests for the last slot of a room, exactly
\* one succeeds, the other answers Conflict, and occupied ends at 1.
C3_ConcurrentAssignLastSlot ==
  \A p, q \in Procs :
    (AssignRace(p, q) /\ pc[p] = "done" /\ pc[q] = "done") =>
      /\ \/ (res[p] = OK /\ res[q] = Conflict)
         \/ (res[p] = Conflict /\ res[q] = OK)
      /\ rooms[req[p].roomId].occupied = 1

\* Slot p served DELETE /users/:id for a user who held a room when the run
\* started, and the other slot served nothing or a request for the same user.
DeleteUserRace(p, i) ==
  /\ req[p].op = "deleteUser" /\ pc[p] = "done" /\ res[p] = OK
  /\ rooms0[i].exists
  /\ users0[req[p].id].exists
  /\ users0[req[p].id].room_no = rooms0[i].room_no
  /\ \A q \in Procs \ {p} :
       \/ pc[q] = "idle"
       \/ /\ pc[q] = "done"
          /\ \/ req[q].op = "unassign" /\ req[q].studentId = req[p].id
             \/ req[q].op \in {"updateUser", "deleteUser"} /\ req[q].id = req[p].id
                  /\ req[q].room_no \in {undefined, NULL}

\* C9: after deleteUser of a user who held a room, whatever request for the
\* same user ran next to it, the room's occupied has gone down by exactly 1.
C9_DeleteUserDecrementsOnce ==
  \A p \in Procs, i \in RoomIds :
    (DeleteUserRace(p, i) /\ rooms[i].exists) =>
      rooms[i].occupied = rooms0[i].occupied - 1

\* ------------------------------------------------------------------- C4
\* the number of attendance rows of a user on a date
RecordsFor(userId, date) ==
  BagCardinality([r \in ExistingAttendance(userId, date) |-> attendance[r]])

\* C4: in every reachable state there is at most one attendance record per
\* (user_id, date), whatever the interleaving of POST /mark and POST /manual.
C4_OneRecordPerUserAndDate ==
  \A u \in UserIds, d \in Dates : RecordsFor(u, d) <= 1

\* ------------------------------------------------------------------ C11
\* Every slot has served a capacity edit or an assign request, and none is
\* still running.
CapacityRaceDone ==
  \A p \in Procs : req[p].op \in {"assign", "updateRoom"} /\ pc[p] = "done"

\* No room has more occupants counted than places.
CapacityCoversOccupied ==
  \A i \in RoomIds : rooms[i].exists => rooms[i].capacity >= rooms[i].occupied

\* C11: a capacity edit below the occupied it reads answers Conflict and
\* leaves the rooms table as it is, and once capacity edits and assign
\* requests that ran together have all finished, no room has
\* capacity < occupied.
C11_UpdateCapacity ==
  [][/\ \A p \in Procs :
          LET room == rooms[req[p].id] IN
          (pc[p] = "updateRoom_select" /\ Steps(p) /\ room.exists
             /\ req[p].capacity # undefined /\ req[p].capacity < room.occupied) =>
            (pc'[p] = "done" /\ res'[p] = Conflict /\ rooms' = rooms)
     /\ CapacityRaceDone' => CapacityCoversOccupied']_vars

\* ------------------------------------------------------------------ C12
\* C12: markPaid answers NotFound for a fee it does not find and Conflict for
\* a fee it reads as paid, writing nothing; of the markPaid requests for one
\* fee at most one succeeds, and a paid fee keeps the paid_date and
\* receipt_no that request wrote.
C12_MarkPaidOnce ==
  [][/\ \A p \in Procs :
          LET fee == fees[req[p].id] IN
          (pc[p] = "markPaid_select" /\ Steps(p)) =>
            /\ ~fee.exists => (pc'[p] = "done" /\ res'[p] = NotFound /\ fees' = fees)
            /\ (fee.exists /\ fee.status = "paid") =>
                 (pc'[p] = "done" /\ res'[p] = Conflict /\ fees' = fees)
     /\ \A p, q \in Procs :
          (p # q /\ req'[p].op = "markPaid" /\ req'[q].op = "markPaid"
             /\ req'[p].id = req'[q].id /\ pc'[p] = "done" /\ pc'[q] = "done") =>
            ~(res'[p] = OK /\ res'[q] = OK)
     /\ \A f \in FeeIds :
          fees[f].status = "paid" =>
            (fees'[f].paid_date = fees[f].paid_date
               /\ fees'[f].receipt_no = fees[f].receipt_no)]_vars

\* ------------------------------------------------------------------ C13
FeeStatusChanges ==
  {<<"pending", "paid">>, <<"pending", "overdue">>, <<"overdue", "paid">>}

\* C13: a fee is created pending, its status changes only pending -> paid,
\* pending -> overdue or overdue -> paid, and a paid fee stays paid.
C13_FeeStatusLifecycle ==
  [][\A f \in FeeIds :
       /\ (~fees[f].exists /\ fees'[f].exists) => fees'[f].status = "pending"
       /\ fees[f].exists =>
            /\ fees'[f].exists
            /\ fees'[f].status # fees[f].status =>
                 <<fees[f].status, fees'[f].status>> \in FeeStatusChanges
            /\ fees[f].status = "paid" => fees'[f].status = "paid"]_vars

\* A fee past its due date is paid although a sweep has run next to the
\* markPaid request that paid it.
C13_Witness ==
  \E p, q \in Procs, f \in FeeIds :
    /\ req[p].op = "markPaid" /\ req[p].id = f /\ pc[p] = "done" /\ res[p] = OK
    /\ req[q].op = "sweepOverdue" /\ pc[q] = "done"
    /\ fees[f].status = "paid" /\ fees[f].due_date < CurDate(now, tz)

\* ------------------------------------------------------------------ C14
\* the fees a sweep is to mark: pending with due_date before today
PendingPastDue(f) ==
  fees[f].exists /\ fees[f].status = "pending" /\ fees[f].due_date < CurDate(now, tz)

\* C14: the sweep statement sets status to overdue for exactly the pending
\* fees with due_date < today and leaves every other fee and every other
\* field as it was.
C14_SweepFrame ==
  [][\A p \in Procs :
       (pc[p] = "sweepOverdue_update" /\ Steps(p)) =>
         /\ \A f \in FeeIds :
              /\ PendingPastDue(f) => fees'[f] = [fees[f] EXCEPT !.status = "overdue"]
              /\ ~PendingPastDue(f) => fees'[f] = fees[f]
         /\ nextFeeId' = nextFeeId]_vars

\* A sweep has run: one fee is overdue and another, not yet due, is still
\* pending.
C14_Witness ==
  \E p \in Procs, f, g \in FeeIds :
    /\ req[p].op = "sweepOverdue" /\ pc[p] = "done"
    /\ fees[f].exists /\ fees[f].status = "overdue"
    /\ fees[g].exists /\ fees[g].status = "pending"
    /\ fees[g].due_date >= CurDate(now, tz)

\* ------------------------------------------------------------------ C15
\* C15: sweepOverdue is idempotent: the table a sweep leaves is the table a
\* second sweep on the same day leaves.
C15_SweepIdempotent ==
  [][\A p \in Procs :
       (pc[p] = "sweepOverdue_update" /\ Steps(p)) =>
         Swept(fees', CurDate(now, tz)) = fees']_vars

\* A sweep has run and has marked a fee overdue.
C15_Witness ==
  \E p \in Procs, f \in FeeIds :
    /\ req[p].op = "sweepOverdue" /\ pc[p] = "done" /\ res[p] = OK
    /\ fees[f].exists /\ fees[f].status = "overdue"
    /\ fees[f].due_date < CurDate(now, tz)

\* ------------------------------------------------------------------ C16
\* the rows the step adds to the attendance table
NewAttendance ==
  {r \in BagToSet(attendance') : CopiesIn(r, attendance') > CopiesIn(r, attendance)}

\* C16: a student's POST /mark with the QR code of another user and a
\* non-admin's POST /manual answer Forbidden and write nothing, and every
\* row a request adds is for the requester or was added by an admin.
C16_AttendanceAuthorization ==
  [][\A p \in Procs :
       /\ (pc[p] = "mark_select" /\ Steps(p) /\ req[p].qrUserId # 0
             /\ req[p].userRole # "admin" /\ req[p].qrUserId # req[p].userId) =>
            (pc'[p] = "done" /\ res'[p] = Forbidden /\ attendance' = attendance)
       /\ (pc[p] = "manual_select" /\ Steps(p) /\ req[p].userRole # "admin") =>
            (pc'[p] = "done" /\ res'[p] = Forbidden /\ attendance' = attendance)
       /\ Steps(p) =>
            \A r \in NewAttendance :
              req[p].userRole = "admin" \/ r.user_id = req[p].userId]_vars

\* A student's POST /mark for another user and a student's POST /manual have
\* both been refused, and neither has written.
C16_Witness ==
  \E p, q \in Procs :
    /\ req[p].op = "mark" /\ req[p].userRole = "student"
    /\ req[p].qrUserId \notin {0, req[p].userId}
    /\ pc[p] = "done" /\ res[p] = Forbidden /\ ~wrote[p]
    /\ req[q].op = "manual" /\ req[q].userRole = "student"
    /\ pc[q] = "done" /\ res[q] = Forbidden /\ ~wrote[q]

\* ------------------------------------------------------------------ C17
\* C17: POST /mark of an accepted QR code and an admin's POST /manual answer
\* Conflict when the table they read holds a row with their (user_id, date),
\* and a request answering Conflict leaves the attendance table as it is.
C17_AttendanceConflict ==
  [][\A p \in Procs :
       /\ (pc[p] = "mark_select" /\ Steps(p) /\ req[p].qrUserId # 0
             /\ (req[p].userRole = "admin" \/ req[p].qrUserId = req[p].userId)
             /\ ExistingAttendance(req[p].qrUserId, ISODate(now)) # {}) =>
            (pc'[p] = "done" /\ res'[p] = Conflict)
       /\ (pc[p] = "manual_select" /\ Steps(p) /\ req[p].userRole = "admin"
             /\ ExistingAttendance(req[p].bodyUserId, req[p].date) # {}) =>
            (pc'[p] = "done" /\ res'[p] = Conflict)
       /\ (req[p].op \in {"mark", "manual"} /\ pc[p] # "done" /\ pc'[p] = "done"
             /\ res'[p] = Conflict) =>
            (~wrote[p] /\ attendance' = attendance)]_vars

\* A POST /mark and a POST /manual have both answered Conflict against the
\* one row the table holds.
C17_Witness ==
  \E p, q \in Procs :
    /\ req[p].op = "mark" /\ pc[p] = "done" /\ res[p] = Conflict /\ ~wrote[p]
    /\ req[q].op = "manual" /\ pc[q] = "done" /\ res[q] = Conflict /\ ~wrote[q]
    /\ BagCardinality(attendance) = 1

\* ------------------------------------------------------------------ C18
\* C18: POST /mark reads the local time of day when it reads the clock, and
\* the row it inserts carries that time and has status late when the time is
\* after 08:00:00 and present otherwise, never absent.
C18_LateClassification ==
  [][\A p \in Procs :
       /\ (pc[p] = "mark_select" /\ pc'[p] = "mark_insert") =>
            loc'[p].currentTime = (now + tz) % SecondsPerDay
       /\ (pc[p] = "mark_insert" /\ Steps(p)) =>
            /\ NewAttendance # {}
            /\ \A r \in NewAttendance :
                 /\ r.check_in_time = loc[p].currentTime
                 /\ r.status = IF r.check_in_time > 28800 THEN "late" ELSE "present"]_vars

\* POST /mark has recorded 07:59:59 and 08:00:00 as present and 08:00:01 as
\* late (two of the three rows at a time).
C18_Witness ==
  \E r1, r2 \in BagToSet(attendance) :
    /\ r1.check_in_time \in {28799, 28800} /\ r1.status = "present"
    /\ r2.check_in_time = 28801 /\ r2.status = "late"
    /\ \E p \in Procs : req[p].op = "mark" /\ pc[p] = "done" /\ res[p] = OK

\* ------------------------------------------------------------------ C19
\* the user whose rows the statistics request of slot p is about
StatsTarget(p) == IF req[p].userRole = "admin" THEN req[p].id ELSE req[p].userId

\* (present + late) / total * 100 rounded to 2 decimals, in hundredths
Percentage(present, late, total) ==
  IF total = 0 THEN 0
  ELSE ((present + late) * 10000 * 2 + total) \div (2 * total)

\* C19: the statistics answer attendancePercentage =
\* (present + late) / total * 100 rounded to 2 decimals, between 0 and 100,
\* and 0 when there is no row.
C19_AttendancePercentage ==
  \A p \in Procs :
    (req[p].op = "stats" /\ pc[p] = "done" /\ res[p] = OK) =>
      LET rows == StatsRows(StatsTarget(p), req[p].startDate, req[p].endDate)
          present == CountRows(rows, {"present"})
          late == CountRows(rows, {"late"})
          total == CountRows(rows, {"present", "absent", "late"})
      IN /\ loc[p].attendancePercentage = Percentage(present, late, total)
         /\ loc[p].attendancePercentage >= 0
         /\ loc[p].attendancePercentage <= 10000

\* ------------------------------------------------------------------ C20
\* C20: an attendance record never changes once created: every row of the
\* table is still there, with the same fields, after every step.
C20_AttendanceImmutable ==
  [][\A r \in BagToSet(attendance) :
       CopiesIn(r, attendance') >= CopiesIn(r, attendance)]_vars

\* A marking request has written while the table already held a row.
C20_Witness ==
  \E p \in Procs :
    /\ req[p].op \in {"mark", "manual"} /\ pc[p] = "done" /\ res[p] = OK /\ wrote[p]
    /\ BagCardinality(attendance) >= 2

\* ------------------------------------------------------------------ C21
\* the fees whose due date lies in the range a fee statistics request names
FeesInRange(p) ==
  {f \in FeeIds :
     /\ fees[f].exists
     /\ req[p].startDate # undefined => fees[f].due_date >= req[p].startDate
     /\ req[p].endDate # undefined => fees[f].due_date <= req[p].endDate}

\* C21: a finished fee statistics request has succeeded, whichever of
\* startDate and endDate it names, and its counts per status and its sums of
\* amounts are those of the fees whose due date lies in the range.
C21_FeeStats ==
  \A p \in Procs :
    (req[p].op = "feeStats" /\ pc[p] = "done") =>
      LET inRange == FeesInRange(p)
          having(status) == {f \in inRange : fees[f].status = status}
          o == loc[p].overview IN
        /\ res[p] = OK
        /\ o.total_fees.value = Cardinality(inRange)
        /\ o.paid_fees.value = Cardinality(having("paid"))
        /\ o.pending_fees.value = Cardinality(having("pending"))
        /\ o.overdue_fees.value = Cardinality(having("overdue"))
        /\ o.total_collected.value = SumAmount(having("paid"))
        /\ o.total_due.value = SumAmount(inRange)

\* ------------------------------------------------------------------ C22
\* C22: a request that has answered with a failure has written nothing: the
\* users, rooms, attendance and fees tables are as they were before the
\* request, the only one of the run.
C22_FailureWritesNothing ==
  \A p \in SeqProcs :
    (pc[p] = "done" /\ res[p] # OK) =>
      /\ users = users0
      /\ rooms = rooms0
      /\ attendance = EmptyBag
      /\ fees = [f \in FeeIds |-> NoFee]

\* ------------------------------------------------------------------ C23
\* C23: a POST /mark or POST /manual request whose INSERT is rejected by the
\* unique key on (user_id, date), a concurrent request having inserted the key
\* after this request's SELECT, answers Conflict.
C23_DuplicateIsConflict ==
  [][\A p \in Procs :
       /\ (pc[p] = "mark_insert" /\ Steps(p)
             /\ DuplicateEntry(req[p].qrUserId, loc[p].today)) =>
            res'[p] = Conflict
       /\ (pc[p] = "manual_insert" /\ Steps(p)
             /\ DuplicateEntry(req[p].bodyUserId, req[p].date)) =>
            res'[p] = Conflict]_vars

\* ------------------------------------------------------------------ C24
\* a finished lookup by id of a student that has read no row of the student
\* (no row at all, or the row of someone else)
ForeignLookup(p) ==
  /\ req[p].op \in {"receipt", "complaint"} /\ pc[p] = "done"
  /\ req[p].userRole = "student" /\ loc[p].owner # req[p].userId

\* C24: two lookups of the same kind by one student, neither of a row of
\* the student, get the same answer, whether the row exists or not.
C24_NoExistenceLeak ==
  \A p, q \in Procs :
    (ForeignLookup(p) /\ ForeignLookup(q) /\ req[p].op = req[q].op
       /\ req[p].userId = req[q].userId) =>
      res[p] = res[q]

\* ------------------------------------------------------------------ C25
\* C25: no statement of a request made with a student identity changes the
\* room_no of a user or the occupied counter of a room.
C25_StudentLeavesOccupancy ==
  [][\A p \in Procs :
       (req[p].userRole = "student" /\ pc[p] \notin {"idle", "done"} /\ Steps(p)) =>
         /\ \A u \in UserIds : users'[u].room_no = users[u].room_no
         /\ \A i \in RoomIds : rooms'[i].occupied = rooms[i].occupied]_vars

\* ------------------------------------------------------------------ C26
\* Both slots served POST /:roomId/unassign for the same room and student,
\* who lived in that room when the run started.
UnassignRace(p, q) ==
  /\ p # q
  /\ req[p].op = "unassign" /\ req[q].op = "unassign"
  /\ req[p].roomId = req[q].roomId /\ req[p].studentId = req[q].studentId
  /\ rooms0[req[p].roomId].exists
  /\ users0[req[p].studentId].exists
  /\ users0[req[p].studentId].room_no = rooms0[req[p].roomId].room_no

\* C26: of two concurrent unassign requests for the same room and student
\* exactly one succeeds, and occupied has gone down by exactly 1.
C26_ConcurrentUnassign ==
  \A p, q \in Procs :
    (UnassignRace(p, q) /\ pc[p] = "done" /\ pc[q] = "done") =>
      /\ (res[p] = OK) # (res[q] = OK)
      /\ rooms[req[p].roomId].occupied = rooms0[req[p].roomId].occupied - 1

\* ------------------------------------------------------------------ C27
\* C27: whenever no request is between two of its statements, the room_no of
\* every user that has one is the room_no of an existing room.
C27_AssignmentRefersToRoom ==
  Quiescent =>
    \A u \in UserIds :
      (users[u].exists /\ Truthy(users[u].room_no)) =>
        \E i \in RoomIds : rooms[i].exists /\ rooms[i].room_no = users[u].room_no

\* ------------------------------------------------------------------ C28
\* every room's occupied is the number of its occupants
OccupiedMatches ==
  \A i \in RoomIds : rooms[i].exists => rooms[i].occupied = Cardinality(Occupants(i))

\* C28: a statement of an admin's user update that sets is_active and no
\* room_no (deactivation or reactivation) keeps every room's occupied equal
\* to the number of active students assigned to the room.
C28_DeactivationKeepsOccupancy ==
  [][\A p \in Procs :
       (req[p].op = "updateUser" /\ req[p].userRole = "admin"
          /\ req[p].room_no = undefined /\ req[p].is_active # "undefined"
          /\ Steps(p) /\ OccupiedMatches) =>
         OccupiedMatches']_vars

\* ------------------------------------------------------------------ C29
\* the calendar day of the server's local clock
LocalDay == (now + tz) \div SecondsPerDay

\* C29: the date POST /mark checks and stores is the calendar day of the
\* local clock it classifies the time of day by, and a request is answered
\* "already marked" only when the user has a row of the current local day.
C29_DateKeyIsLocalDay ==
  [][\A p \in Procs :
       /\ (pc[p] = "mark_select" /\ pc'[p] = "mark_insert") =>
            loc'[p].today = LocalDay
       /\ (pc[p] = "mark_select" /\ Steps(p) /\ res'[p] = Conflict) =>
            ExistingAttendance(req[p].qrUserId, LocalDay) # {}]_vars

\* ------------------------------------------------------------------ C30
\* the unpaid fees of active students whose due date is before today
UnpaidPastDue ==
  {f \in FeeIds :
     /\ fees[f].exists /\ fees[f].status # "paid"
     /\ fees[f].due_date < CurDate(now, tz)
     /\ users[fees[f].user_id].exists
     /\ users[fees[f].user_id].role = "student"
     /\ users[fees[f].user_id].is_active}

\* C30: the listing GET /fees/overdue reads holds every unpaid fee of an
\* active student whose due date is before today, also after the sweep has
\* set the fee to overdue.
C30_OverdueListing ==
  [][\A p \in Procs :
       (pc[p] = "overdue_select" /\ Steps(p)) =>
         UnpaidPastDue \subseteq loc'[p].overdueFees]_vars

====
